---- MODULE Spec2Model ----
(***************************************************************************)
(* Model of src/lib/slack/agent/handleMessages.ts: the Slack agent's       *)
(* inbound message router (handleMessage) and the isAgentThread predicate. *)
(*                                                                         *)
(* handleMessage is an async function: every `await` is a point where      *)
(* other invocations may run, so each awaited call (a database statement,  *)
(* a Slack post, the job trigger) is one atomic action and the synchronous *)
(* code that follows it belongs to the same action.                        *)
(*                                                                         *)
(* Strings are sequences of one-character strings, so that toLowerCase and *)
(* includes are computed and not assumed.                                  *)
(***************************************************************************)
EXTENDS Integers, Sequences, FiniteSets, TLC

(***************************************************************************)
(* Bounds of the model.                                                    *)
(***************************************************************************)
\* handleMessage invocations that may be in flight at the same time
NProcs == 2
\* handleMessage invocations delivered in one behaviour
MaxCalls == 3
\* Slack message timestamps of inbound events are 1..MaxTs
MaxTs == 2
\* calls to Slack or to the job queue that fail in one behaviour
MaxFailures == 1

(***************************************************************************)
(* Absent values (undefined / null in the source).                         *)
(***************************************************************************)
NoTs == 0
NoId == 0
NoToken == ""
NoUser == ""
NoText == <<>>
NoBotUser == <<>>
NoMailbox == [id |-> NoId, name |-> <<>>, slackBotToken |-> NoToken, slackBotUserId |-> NoBotUser]
NoThread == [id |-> NoId, mailboxId |-> NoId]

(***************************************************************************)
(* Strings.                                                                *)
(***************************************************************************)
\* String.prototype.toLowerCase on one character
LowerChar(c) ==
  CASE c = "A" -> "a" [] c = "D" -> "d" [] c = "E" -> "e" [] c = "H" -> "h"
    [] c = "I" -> "i" [] c = "O" -> "o" [] c = "P" -> "p" [] c = "R" -> "r"
    [] c = "S" -> "s" [] c = "U" -> "u"
    [] OTHER -> c

ToLowerCase(s) == [i \in 1..Len(s) |-> LowerChar(s[i])]

\* String.prototype.includes
Includes(s, sub) ==
  \E i \in 0..(Len(s) - Len(sub)) : SubSeq(s, i + 1, i + Len(sub)) = sub

RECURSIVE Join(_, _)
\* Array.prototype.join
Join(strs, sep) ==
  IF Len(strs) = 0 THEN <<>>
  ELSE IF Len(strs) = 1 THEN strs[1]
  ELSE strs[1] \o sep \o Join(Tail(strs), sep)

(***************************************************************************)
(* Mailboxes (src/lib/data/mailbox, read-only here) and the mailboxInfo    *)
(* argument.                                                               *)
(***************************************************************************)
\* Slack user ids that appear inside message text are spelled out
BotUser == <<"U", "B">>
OtherUser == <<"U", "1">>

MailboxA == [id |-> 1, name |-> <<"O", "p">>, slackBotToken |-> "xoxb-1", slackBotUserId |-> BotUser]
MailboxB == [id |-> 2, name |-> <<"H", "r">>, slackBotToken |-> "xoxb-2", slackBotUserId |-> BotUser]

MailboxLists == {<<>>, <<MailboxA>>, <<MailboxA, MailboxB>>}

Range(f) == {f[i] : i \in DOMAIN f}

\* SlackMailboxInfo values handed to handleMessage
MailboxInfos ==
  {[mailboxes |-> l, currentMailbox |-> c] : l \in MailboxLists, c \in {NoMailbox}} \cup
  UNION {{[mailboxes |-> l, currentMailbox |-> c] : c \in Range(l)} : l \in MailboxLists}

(***************************************************************************)
(* Inbound events.                                                         *)
(***************************************************************************)
Channels == {"C1"}
Texts == {NoText, <<"h", "i">>, <<"h", "R">>}

\* the author of a Slack message is fixed: redeliveries carry the same user;
\* the message with ts 1 has an author, later ones carry no user
UserOf(ts) == IF ts = 1 THEN "U1" ELSE NoUser

Events ==
  {e \in [channel : Channels, ts : 1..MaxTs, thread_ts : {NoTs} \cup 1..MaxTs,
          text : Texts, user : {NoUser, "U1"}, bot_id : BOOLEAN, bot_profile : BOOLEAN] :
     e.thread_ts < e.ts /\ e.user = UserOf(e.ts)}

\* event.thread_ts ?? event.ts
ThreadRoot(event) == IF event.thread_ts # NoTs THEN event.thread_ts ELSE event.ts

EventKey(event) == <<event.channel, ThreadRoot(event), event.ts>>

(***************************************************************************)
(* State.                                                                  *)
(*   threads    agent_threads rows in insertion order; a row's id is its   *)
(*              position                                                   *)
(*   messages   agent_messages rows                                        *)
(*   posts      chat.postMessage calls that Slack accepted, in order; a    *)
(*              post's Slack timestamp is its position                     *)
(*   jobs       triggerEvent("slack/agent.message", ...) payloads, in order*)
(*   procs      the handleMessage invocations in flight, each the record of*)
(*              its locals (cid tells them apart; message tells whether the*)
(*              insert returned a row; wrote is the mailbox id it set)     *)
(*   calls      invocations delivered so far (an invocation's number, cid, *)
(*              tags what it posts and enqueues)                           *)
(*   completed  keys of the text events for which an invocation returned   *)
(*   failed     keys of the events for which an invocation ended with an   *)
(*              error after its insert created the Message row             *)
(*   ret        the locals of the invocation that ended last               *)
(*   failures   calls to Slack or to the job queue that have failed        *)
(*   agent      the isAgentThread call under way: its arguments, the       *)
(*              replies Slack returned and the result                      *)
(*   mailboxInfo  the SlackMailboxInfo the caller hands to handleMessage;  *)
(*              the workspace's mailboxes do not change during a behaviour *)
(***************************************************************************)
VARIABLES threads, messages, posts, jobs, procs, calls, completed, ret, failures, mailboxInfo,
          agent, failed

vars == <<threads, messages, posts, jobs, procs, calls, completed, ret, failures, mailboxInfo,
          agent, failed>>

NoEvent == [channel |-> "", ts |-> NoTs, thread_ts |-> NoTs, text |-> NoText,
            user |-> NoUser, bot_id |-> FALSE, bot_profile |-> FALSE]

Idle == [pc |-> "idle", cid |-> 0, event |-> NoEvent,
         agentThread |-> NoThread, message |-> FALSE, mailbox |-> NoMailbox, mentionedMailbox |-> NoMailbox,
         statusMessageTs |-> NoTs, wrote |-> NoId, redelivery |-> FALSE,
         afterFailure |-> FALSE]

NoAgent == [pc |-> "none", event |-> NoEvent, mailboxes |-> <<>>, replies |-> <<>>,
            result |-> FALSE]

Init ==
  /\ threads = <<>>
  /\ messages = {}
  /\ posts = <<>>
  /\ jobs = <<>>
  /\ procs = {}
  /\ calls = 0
  /\ completed = {}
  /\ ret = Idle
  /\ failures = 0
  /\ mailboxInfo \in MailboxInfos
  /\ agent = NoAgent
  /\ failed = {}

(***************************************************************************)
(* Pure helpers of handleMessage.                                          *)
(***************************************************************************)
IsBotEventIdOnly(event) == event.bot_id

\* event.bot_id || event.bot_profile
IsBotEvent(event) == event.bot_id \/ event.bot_profile

\* mailboxes.find(({ id }) => id === mailboxId)
FindMailbox(mailboxes, mailboxId) ==
  IF \E i \in 1..Len(mailboxes) : mailboxes[i].id = mailboxId
  THEN mailboxes[CHOOSE i \in 1..Len(mailboxes) :
                   /\ mailboxes[i].id = mailboxId
                   /\ \A j \in 1..(i - 1) : mailboxes[j].id # mailboxId]
  ELSE NoMailbox

ResolveMailboxNoCurrent(info, agentThread) ==
  FindMailbox(info.mailboxes, agentThread.mailboxId)

\* mailboxInfo.mailboxes.find(...) ?? mailboxInfo.currentMailbox
ResolveMailbox(info, agentThread) ==
  LET found == FindMailbox(info.mailboxes, agentThread.mailboxId)
  IN IF found # NoMailbox THEN found ELSE info.currentMailbox

MentionsExactCase(lowercaseText, mailbox, currentMailbox) ==
  mailbox.id # currentMailbox.id /\ Includes(lowercaseText, mailbox.name)

\* line 165, the test of the loop
Mentions(lowercaseText, mailbox, currentMailbox) ==
  mailbox.id # currentMailbox.id /\ Includes(lowercaseText, ToLowerCase(mailbox.name))

findMentionedMailbox(messageText, mailboxes, currentMailbox) ==
  IF Len(mailboxes) <= 1 THEN NoMailbox
  ELSE LET lowercaseText == ToLowerCase(messageText)
           hits == {i \in 1..Len(mailboxes) : Mentions(lowercaseText, mailboxes[i], currentMailbox)}
       IN IF hits = {} THEN NoMailbox
          ELSE mailboxes[CHOOSE i \in hits : \A j \in hits : i <= j]

LastMailbox(mailboxes) ==
  IF Len(mailboxes) = 0 THEN NoMailbox ELSE mailboxes[Len(mailboxes)]

\* mailboxes[0]
FirstMailbox(mailboxes) == IF Len(mailboxes) = 0 THEN NoMailbox ELSE mailboxes[1]

\* line 60 without the default: the mentioned mailbox or nothing
MailboxToUseMentionOnly(proc) == proc.mentionedMailbox

\* mentionedMailbox || mailbox
MailboxToUse(proc) ==
  IF proc.mentionedMailbox # NoMailbox THEN proc.mentionedMailbox ELSE proc.mailbox

\* the rows findFirst may return: SQL fixes no order among rows that match
MatchingThreads(event) ==
  {i \in 1..Len(threads) :
     threads[i].slackChannel = event.channel /\ threads[i].threadTs = ThreadRoot(event)}

\* agent_messages (db/schema): Message rows are unique on (thread id, message
\* timestamp); this is the key onConflictDoNothing rests on
MessageConflict(row) ==
  \E m \in messages : m.agentThreadId = row.agentThreadId /\ m.messageTs = row.messageTs

\* agent_threads (db/schema): no uniqueness constraint is stated for Thread rows,
\* and the insert of lines 20-27 carries no conflict clause
ThreadConflict(row) == FALSE

Post(proc, kind, mailbox, arg) ==
  [cid |-> proc.cid, event |-> EventKey(proc.event), kind |-> kind,
   token |-> mailbox.slackBotToken,
   channel |-> proc.event.channel, thread_ts |-> ThreadRoot(proc.event), text |-> arg]

(***************************************************************************)
(* How an invocation ends.                                                 *)
(***************************************************************************)
Return(p, proc) ==
  /\ procs' = procs \ {p}
  /\ ret' = [proc EXCEPT !.pc = "returned"]
  /\ completed' = IF proc.event.text # NoText
                  THEN completed \cup {EventKey(proc.event)} ELSE completed
  /\ UNCHANGED failed

Throw(p, proc) ==
  /\ procs' = procs \ {p}
  /\ ret' = [proc EXCEPT !.pc = "threw"]
  /\ failed' = IF proc.message THEN failed \cup {EventKey(proc.event)} ELSE failed
  /\ UNCHANGED completed

Goto(p, proc) ==
  /\ procs' = (procs \ {p}) \cup {proc}
  /\ UNCHANGED <<ret, completed, failed>>

\* line 73 without assertDefined: a client is made of whatever the token is
ToThinkingUnasserted(p, proc) == Goto(p, [proc EXCEPT !.pc = "think"])

\* line 73: new WebClient(assertDefined(mailbox.slackBotToken)), then the
\* placeholder post is awaited
ToThinking(p, proc) ==
  IF proc.mailbox.slackBotToken = NoToken
  THEN Throw(p, proc)
  ELSE Goto(p, [proc EXCEPT !.pc = "think"])

\* lines 29-49 without the test of event.text: the insert is always made
AfterThreadAlwaysInsert(p, proc) == Goto(p, [proc EXCEPT !.pc = "insertMessage"])

\* lines 29-30 once agentThread is known: without text there is nothing left
AfterThread(p, proc) ==
  IF proc.event.text = NoText
  THEN Return(p, proc)
  ELSE Goto(p, [proc EXCEPT !.pc = "insertMessage"])

\* what an awaited call to Slack or to the job queue may do: succeed, or fail
\* (an error, or for the placeholder a reply without a timestamp)
Outcomes == IF failures < MaxFailures THEN {TRUE, FALSE} ELSE {TRUE}

(***************************************************************************)
(* handleMessage, one action per awaited call.                             *)
(***************************************************************************)
\* lines 11-12: the call, and the bot check
Begin(event) ==
  /\ Cardinality(procs) < NProcs
  /\ calls < MaxCalls
  /\ calls' = calls + 1
  /\ IF IsBotEvent(event)
     THEN \* nothing but the two markers of a bot event is ever read
          /\ procs' = procs
          /\ ret' = [Idle EXCEPT !.pc = "returned", !.cid = calls + 1,
                                 !.event = [NoEvent EXCEPT !.bot_id = event.bot_id,
                                                           !.bot_profile = event.bot_profile]]
          /\ UNCHANGED completed
     ELSE /\ procs' = procs \cup {[Idle EXCEPT !.pc = "find", !.cid = calls + 1,
                                                !.event = event,
                                                !.redelivery = EventKey(event) \in completed,
                                                !.afterFailure = EventKey(event) \in failed]}
          /\ UNCHANGED <<ret, completed>>
  /\ UNCHANGED <<threads, messages, posts, jobs, failures, mailboxInfo, agent, failed>>

\* lines 14-16: db.query.agentThreads.findFirst
FindThread(p) ==
  /\ p.pc = "find"
  /\ LET proc == p
         rows == MatchingThreads(proc.event)
     IN IF rows = {}
        THEN Goto(p, [proc EXCEPT !.pc = "insertThread"])
        ELSE \E i \in rows :
               AfterThread(p, [proc EXCEPT !.agentThread =
                                 [id |-> i, mailboxId |-> threads[i].mailboxId]])
  /\ UNCHANGED <<threads, messages, posts, jobs, calls, failures, mailboxInfo, agent>>

\* lines 20-27: db.insert(agentThreads).values(...).returning()
InsertThread(p) ==
  /\ p.pc = "insertThread"
  /\ LET proc == p
         row == [slackChannel |-> proc.event.channel, threadTs |-> ThreadRoot(proc.event),
                 mailboxId |-> NoId]
     IN IF ThreadConflict(row)
        THEN /\ UNCHANGED threads
             /\ Throw(p, proc)
        ELSE /\ threads' = Append(threads, row)
             /\ AfterThread(p, [proc EXCEPT !.agentThread =
                                  [id |-> Len(threads) + 1, mailboxId |-> NoId]])
  /\ UNCHANGED <<messages, posts, jobs, calls, failures, mailboxInfo, agent>>

\* lines 57-61 and 73, the synchronous code after the mailbox is resolved
Route(p, proc) ==
  LET mentioned == findMentionedMailbox(proc.event.text, mailboxInfo.mailboxes, proc.mailbox)
      next == [proc EXCEPT !.mentionedMailbox = mentioned]
  IN IF proc.agentThread.mailboxId = NoId \/ mentioned # NoMailbox
     THEN Goto(p, [next EXCEPT !.pc = "update"])
     ELSE ToThinking(p, next)

\* lines 51-55, and line 152 of askWhichMailbox
Resolve(p, proc) ==
  LET mailbox == ResolveMailbox(mailboxInfo, proc.agentThread)
  IN IF mailbox = NoMailbox
     THEN IF FirstMailbox(mailboxInfo.mailboxes).slackBotToken = NoToken
          THEN Throw(p, proc)
          ELSE Goto(p, [proc EXCEPT !.pc = "ask"])
     ELSE Route(p, [proc EXCEPT !.mailbox = mailbox])

\* the insert without the return of line 47: the routing goes on when the
\* insert yielded no row
InsertMessageNoReturn(p) ==
  /\ p.pc = "insertMessage"
  /\ LET proc == p
         row == [agentThreadId |-> proc.agentThread.id, role |-> "user",
                 content |-> proc.event.text, slackChannel |-> proc.event.channel,
                 messageTs |-> proc.event.ts]
     IN IF MessageConflict(row)
        THEN /\ UNCHANGED messages
             /\ Resolve(p, proc)
        ELSE /\ messages' = messages \cup {row}
             /\ Resolve(p, [proc EXCEPT !.message = TRUE])
  /\ UNCHANGED <<threads, posts, jobs, calls, failures, mailboxInfo, agent>>

\* lines 31-49: db.insert(agentMessages)...onConflictDoNothing().returning()
InsertMessage(p) ==
  /\ p.pc = "insertMessage"
  /\ LET proc == p
         row == [agentThreadId |-> proc.agentThread.id, role |-> "user",
                 content |-> proc.event.text, slackChannel |-> proc.event.channel,
                 messageTs |-> proc.event.ts]
     IN IF MessageConflict(row)
        THEN /\ UNCHANGED messages
             /\ Return(p, proc)
        ELSE /\ messages' = messages \cup {row}
             /\ Resolve(p, [proc EXCEPT !.message = TRUE])
  /\ UNCHANGED <<threads, posts, jobs, calls, failures, mailboxInfo, agent>>

\* lines 153-157: the "which mailbox" prompt
AskWhichMailbox(p) ==
  /\ p.pc = "ask"
  /\ LET proc == p
         mailboxes == mailboxInfo.mailboxes
         names == [i \in 1..Len(mailboxes) |-> mailboxes[i].name]
     IN \E ok \in Outcomes :
          /\ failures' = IF ok THEN failures ELSE failures + 1
          /\ IF ok
             THEN /\ posts' = Append(posts, Post(proc, "which", FirstMailbox(mailboxes),
                                                 Join(names, <<"/">>)))
                  /\ Return(p, proc)
             ELSE /\ UNCHANGED posts
                  /\ Throw(p, proc)
  /\ UNCHANGED <<threads, messages, jobs, calls, mailboxInfo, agent>>

\* lines 59-65: db.update(agentThreads).set({ mailboxId }).where(id)
UpdateThread(p) ==
  /\ p.pc = "update"
  /\ LET proc == p
         mailboxToUse == MailboxToUse(proc)
         next == [proc EXCEPT !.wrote = mailboxToUse.id]
     IN /\ threads' = [threads EXCEPT ![proc.agentThread.id].mailboxId = mailboxToUse.id]
        /\ IF proc.mentionedMailbox # NoMailbox /\ Len(mailboxInfo.mailboxes) > 1
           THEN IF mailboxToUse.slackBotToken = NoToken
                THEN Throw(p, next)
                ELSE Goto(p, [next EXCEPT !.pc = "switch"])
           ELSE ToThinking(p, next)
  /\ UNCHANGED <<messages, posts, jobs, calls, failures, mailboxInfo, agent>>

\* lines 64-69 and 172-178: postMailboxSwitchMessage
PostSwitch(p) ==
  /\ p.pc = "switch"
  /\ LET proc == p
         mailboxToUse == MailboxToUse(proc)
     IN \E ok \in Outcomes :
          /\ failures' = IF ok THEN failures ELSE failures + 1
          /\ IF ok
             THEN /\ posts' = Append(posts, Post(proc, "switched", mailboxToUse, mailboxToUse.name))
                  /\ ToThinking(p, proc)
             ELSE /\ UNCHANGED posts
                  /\ Throw(p, proc)
  /\ UNCHANGED <<threads, messages, jobs, calls, mailboxInfo, agent>>

\* postThinkingMessage without the check of line 146: the routing goes on with
\* no timestamp
PostThinkingUnchecked(p) ==
  /\ p.pc = "think"
  /\ LET proc == p
     IN \E ok \in Outcomes :
          /\ failures' = IF ok THEN failures ELSE failures + 1
          /\ IF ok
             THEN /\ posts' = Append(posts, Post(proc, "thinking", proc.mailbox, <<>>))
                  /\ Goto(p, [proc EXCEPT !.pc = "trigger", !.statusMessageTs = Len(posts) + 1])
             ELSE /\ UNCHANGED posts
                  /\ Goto(p, [proc EXCEPT !.pc = "trigger"])
  /\ UNCHANGED <<threads, messages, jobs, calls, mailboxInfo, agent>>

\* lines 77 and 139-149: postThinkingMessage
PostThinking(p) ==
  /\ p.pc = "think"
  /\ LET proc == p
     IN \E ok \in Outcomes :
          /\ failures' = IF ok THEN failures ELSE failures + 1
          /\ IF ok
             THEN /\ posts' = Append(posts, Post(proc, "thinking", proc.mailbox, <<>>))
                  /\ Goto(p, [proc EXCEPT !.pc = "trigger", !.statusMessageTs = Len(posts) + 1])
             ELSE /\ UNCHANGED posts
                  /\ Throw(p, proc)
  /\ UNCHANGED <<threads, messages, jobs, calls, mailboxInfo, agent>>

\* triggerEvent with the sender left out of the payload
TriggerEventNoUser(p) ==
  /\ p.pc = "trigger"
  /\ LET proc == p
     IN \E ok \in Outcomes :
          /\ failures' = IF ok THEN failures ELSE failures + 1
          /\ IF ok
             THEN /\ jobs' = Append(jobs, [cid |-> proc.cid, event |-> EventKey(proc.event),
                                           slackUserId |-> NoUser,
                                           statusMessageTs |-> proc.statusMessageTs,
                                           agentThreadId |-> proc.agentThread.id])
                  /\ Return(p, proc)
             ELSE /\ UNCHANGED jobs
                  /\ Throw(p, proc)
  /\ UNCHANGED <<threads, messages, posts, calls, mailboxInfo, agent>>

\* lines 75-79: triggerEvent("slack/agent.message", ...)
TriggerEvent(p) ==
  /\ p.pc = "trigger"
  /\ LET proc == p
     IN \E ok \in Outcomes :
          /\ failures' = IF ok THEN failures ELSE failures + 1
          /\ IF ok
             THEN /\ jobs' = Append(jobs, [cid |-> proc.cid, event |-> EventKey(proc.event),
                                           slackUserId |-> proc.event.user,
                                           statusMessageTs |-> proc.statusMessageTs,
                                           agentThreadId |-> proc.agentThread.id])
                  /\ Return(p, proc)
             ELSE /\ UNCHANGED jobs
                  /\ Throw(p, proc)
  /\ UNCHANGED <<threads, messages, posts, calls, mailboxInfo, agent>>

Next ==
  \/ \E event \in Events : Begin(event)
  \/ \E p \in procs : FindThread(p)
  \/ \E p \in procs : InsertThread(p)
  \/ \E p \in procs : InsertMessage(p)
  \/ \E p \in procs : AskWhichMailbox(p)
  \/ \E p \in procs : UpdateThread(p)
  \/ \E p \in procs : PostSwitch(p)
  \/ \E p \in procs : PostThinking(p)
  \/ \E p \in procs : TriggerEvent(p)

Spec == Init /\ [][Next]_vars

(***************************************************************************)
(* handleMessage in a workspace where a mailbox has no bot token           *)
(* (slackBotToken is nullable): the same actions, from the configurations  *)
(* in which a credential that the routing needs is missing.                *)
(***************************************************************************)
MailboxANoToken == [MailboxA EXCEPT !.slackBotToken = NoToken]
MailboxBNoToken == [MailboxB EXCEPT !.slackBotToken = NoToken]

CredMailboxInfos ==
  {[mailboxes |-> <<MailboxA, MailboxBNoToken>>, currentMailbox |-> MailboxA],
   [mailboxes |-> <<MailboxA, MailboxBNoToken>>, currentMailbox |-> NoMailbox],
   [mailboxes |-> <<MailboxANoToken, MailboxB>>, currentMailbox |-> MailboxANoToken],
   [mailboxes |-> <<MailboxANoToken, MailboxB>>, currentMailbox |-> NoMailbox],
   [mailboxes |-> <<MailboxANoToken>>, currentMailbox |-> MailboxANoToken]}

InitCred ==
  /\ threads = <<>>
  /\ messages = {}
  /\ posts = <<>>
  /\ jobs = <<>>
  /\ procs = {}
  /\ calls = 0
  /\ completed = {}
  /\ ret = Idle
  /\ failures = 0
  /\ mailboxInfo \in CredMailboxInfos
  /\ agent = NoAgent
  /\ failed = {}

SpecCred == InitCred /\ [][Next]_vars

(***************************************************************************)
(* isAgentThread (lines 112-137). It reads no shared state: its result is  *)
(* a function of the event, of mailboxInfo.mailboxes and of the replies    *)
(* conversations.replies returns.                                          *)
(***************************************************************************)
\* conversations.replies is asked for at most this many messages (line 124)
RepliesLimit == 50
\* replies Slack returns in the model
MaxReplies == 2

AsideMarker == <<"(", "a", "s", "i", "d", "e", ")">>

HasAsideMarkerExactCase(text) == Includes(text, AsideMarker)

\* line 118: event.text?.toLowerCase().includes("(aside)")
HasAsideMarker(text) == Includes(ToLowerCase(text), AsideMarker)

\* `<@${mailbox.slackBotUserId}>`
MentionOf(userId) == <<"<", "@">> \o userId \o <<">">>

\* text.match(/<@[^>]+>/): "<@", one character or more that is not ">", then ">"
HasMentionToken(text) ==
  \E i \in 1..Len(text) :
    /\ i + 3 <= Len(text)
    /\ text[i] = "<" /\ text[i + 1] = "@"
    /\ text[i + 2] # ">"
    /\ \E j \in (i + 3)..Len(text) : text[j] = ">"

\* the loop of lines 127-129 without the test of the author
MentionsBotAnyAuthor(replies, botUserId) ==
  \E i \in 1..Len(replies) : Includes(replies[i].text, MentionOf(botUserId))

\* lines 127-129: some message of another user names the bot
MentionsBot(replies, botUserId) ==
  \E i \in 1..Len(replies) :
    replies[i].user # botUserId /\ Includes(replies[i].text, MentionOf(botUserId))

isAgentThread(event, mailboxes, replies) ==
  LET mailbox == FirstMailbox(mailboxes)
  IN IF \/ mailbox.slackBotToken = NoToken
        \/ mailbox.slackBotUserId = NoBotUser
        \/ event.thread_ts = NoTs
        \/ event.thread_ts = event.ts
     THEN FALSE
     ELSE IF HasAsideMarker(event.text) THEN FALSE
     ELSE IF MentionsBot(replies, mailbox.slackBotUserId) THEN TRUE
     ELSE IF Len(replies) >= 1 /\ replies[1].user = mailbox.slackBotUserId
     THEN ~(Len(replies) >= 2 /\ HasMentionToken(replies[2].text))
     ELSE FALSE

\* the texts of the events and of the replies the predicate is tried on
Hi == <<"h", "i">>
AgentEventTexts ==
  {NoText, Hi, AsideMarker, <<"(", "a", "s", "i", "d", "e">>,
   <<"(", "A", "S", "I", "D", "E", ")">> \o MentionOf(BotUser),
   Hi \o <<"(", "A", "s", "i", "d", "E", ")">>}
ReplyTexts ==
  {NoText, Hi, MentionOf(BotUser), MentionOf(OtherUser), Hi \o MentionOf(BotUser) \o Hi,
   <<"<", "@", ">">>}

AgentEvents ==
  {e \in [channel : Channels, ts : 1..MaxTs, thread_ts : {NoTs} \cup 1..MaxTs,
          text : AgentEventTexts, user : {NoUser}, bot_id : {FALSE}, bot_profile : {FALSE}] :
     e.thread_ts <= e.ts}
AgentMailboxLists ==
  {<<>>, <<MailboxA>>, <<MailboxA, MailboxB>>,
   <<[MailboxA EXCEPT !.slackBotToken = NoToken]>>,
   <<[MailboxA EXCEPT !.slackBotUserId = NoBotUser]>>}
Replies == [user : {NoBotUser, BotUser, OtherUser}, text : ReplyTexts]
ReplyLists ==
  UNION {[1..n -> Replies] : n \in {k \in 0..MaxReplies : k <= RepliesLimit}}

InitAgent ==
  /\ threads = <<>>
  /\ messages = {}
  /\ posts = <<>>
  /\ jobs = <<>>
  /\ procs = {}
  /\ calls = 0
  /\ completed = {}
  /\ ret = Idle
  /\ failures = 0
  /\ mailboxInfo = [mailboxes |-> <<>>, currentMailbox |-> NoMailbox]
  /\ failed = {}
  /\ agent \in {[NoAgent EXCEPT !.pc = "called", !.event = e, !.mailboxes = l] :
                  e \in AgentEvents, l \in AgentMailboxLists}

\* the call returns, Slack having answered with replies
IsAgentThreadReturns(replies) ==
  /\ agent.pc = "called"
  /\ agent' = [agent EXCEPT !.pc = "returned", !.replies = replies,
                            !.result = isAgentThread(agent.event, agent.mailboxes, replies)]
  /\ UNCHANGED <<threads, messages, posts, jobs, procs, calls, completed, ret, failures,
                 mailboxInfo, failed>>

NextAgent == \E replies \in ReplyLists : IsAgentThreadReturns(replies)

SpecAgent == InitAgent /\ [][NextAgent]_vars

(***************************************************************************)
(* What an invocation did, read off the logs by its number.                *)
(***************************************************************************)
\* SelectSeq with the kinds of the posts of invocation cid, in order
PostsOf(cid) == SelectSeq(posts, LAMBDA post : post.cid = cid)
KindsOf(cid) == [i \in 1..Len(PostsOf(cid)) |-> PostsOf(cid)[i].kind]
JobsOf(cid) == SelectSeq(jobs, LAMBDA job : job.cid = cid)

EventKeys == {EventKey(event) : event \in Events}
ThinkingFor(key) == {i \in 1..Len(posts) : posts[i].kind = "thinking" /\ posts[i].event = key}
JobsFor(key) == {i \in 1..Len(jobs) : jobs[i].event = key}

\* the invocation p takes this step (every step of an invocation changes or
\* ends its record)
Steps(p) == p \in procs /\ p \notin procs'

(***************************************************************************)
(* C9. Thread uniqueness: in every reachable state at most one Thread row  *)
(* exists for a (channel, thread root) pair, whatever the interleaving of  *)
(* the invocations that share it.                                          *)
(***************************************************************************)
C9_ThreadUnique ==
  \A i, j \in 1..Len(threads) :
    (threads[i].slackChannel = threads[j].slackChannel /\ threads[i].threadTs = threads[j].threadTs)
      => i = j

(***************************************************************************)
(* C2. Duplicate-delivery suppression under concurrency: for one message   *)
(* (channel, thread root, ts) at most one thinking placeholder is posted   *)
(* and at most one job is enqueued, however the invocations interleave.    *)
(***************************************************************************)
C2_OnePlaceholderOneJob ==
  \A key \in EventKeys :
    Cardinality(ThinkingFor(key)) <= 1 /\ Cardinality(JobsFor(key)) <= 1

(***************************************************************************)
(* C1. Idempotent re-delivery: once an invocation has returned for a text  *)
(* event, no step of an invocation that began later with the same          *)
(* (channel, thread root, ts) creates a Thread row or a Message row, posts *)
(* to Slack or enqueues a job.                                             *)
(***************************************************************************)
C1_RedeliveryInert ==
  [][\A p \in procs :
       (p.redelivery /\ Steps(p)) => UNCHANGED <<threads, messages, posts, jobs>>]_vars

(***************************************************************************)
(* C7. Bot events are inert: an invocation for an event with bot_id or     *)
(* bot_profile set returns at once; it never reaches a database statement, *)
(* and threads, messages, posts and jobs are left as they were.            *)
(***************************************************************************)
C7_BotEventsInert ==
  [][\A event \in Events :
       ((event.bot_id \/ event.bot_profile) /\ Begin(event))
         => UNCHANGED <<threads, messages, posts, jobs, procs>>]_vars

C7_Witness ==
  /\ ret.pc = "returned"
  /\ ret.event.bot_profile /\ ~ret.event.bot_id
  /\ ret.agentThread = NoThread
  /\ Len(threads) > 0

(***************************************************************************)
(* C3. Single-mailbox default, as claimed: an invocation that recorded a   *)
(* new Message on a Thread without a bound mailbox, with exactly one       *)
(* mailbox configured and no currently-selected mailbox, binds the Thread  *)
(* to that mailbox, posts the thinking placeholder and nothing else, and   *)
(* enqueues exactly one job with the Thread's id.                          *)
(***************************************************************************)
SingleMailboxOutcome ==
  /\ ret.pc = "returned"
  /\ ret.wrote = mailboxInfo.mailboxes[1].id
  /\ threads[ret.agentThread.id].mailboxId = mailboxInfo.mailboxes[1].id
  /\ KindsOf(ret.cid) = <<"thinking">>
  /\ Len(JobsOf(ret.cid)) = 1
  /\ JobsOf(ret.cid)[1].agentThreadId = ret.agentThread.id

C3_SingleMailboxNoCurrent ==
  (/\ ret.pc \in {"returned", "threw"}
   /\ ret.message
   /\ ret.agentThread.mailboxId = NoId
   /\ Len(mailboxInfo.mailboxes) = 1
   /\ mailboxInfo.currentMailbox = NoMailbox
   /\ failures = 0)
    => SingleMailboxOutcome

(***************************************************************************)
(* C3, amended: the same with that one mailbox as the currently-selected   *)
(* mailbox, when no call to Slack or to the job queue fails and the        *)
(* mailbox has a bot token.                                                *)
(***************************************************************************)
C3_SingleMailboxCurrent ==
  (/\ ret.pc \in {"returned", "threw"}
   /\ ret.message
   /\ ret.agentThread.mailboxId = NoId
   /\ Len(mailboxInfo.mailboxes) = 1
   /\ mailboxInfo.currentMailbox = mailboxInfo.mailboxes[1]
   /\ mailboxInfo.mailboxes[1].slackBotToken # NoToken
   /\ failures = 0)
    => SingleMailboxOutcome

C3_Witness ==
  /\ ret.message
  /\ ret.agentThread.mailboxId = NoId
  /\ Len(mailboxInfo.mailboxes) = 1
  /\ mailboxInfo.currentMailbox = mailboxInfo.mailboxes[1]
  /\ SingleMailboxOutcome

(***************************************************************************)
(* C4. Binding-overwrite invariant: a step that replaces the mailbox a     *)
(* Thread is bound to by another one is the update of an invocation whose  *)
(* text contains, whatever the letter case, the name of the new mailbox,   *)
(* with more than one mailbox configured.                                  *)
(***************************************************************************)
NamedIn(text, mailboxId) ==
  \E i \in 1..Len(mailboxInfo.mailboxes) :
    /\ mailboxInfo.mailboxes[i].id = mailboxId
    /\ Includes(ToLowerCase(text), ToLowerCase(mailboxInfo.mailboxes[i].name))

C4_OverwriteOnlyByMention ==
  [][\A p \in procs :
       (/\ Steps(p)
        /\ p.pc = "update"
        /\ threads[p.agentThread.id].mailboxId # NoId
        /\ threads'[p.agentThread.id].mailboxId # threads[p.agentThread.id].mailboxId)
         => (/\ NamedIn(p.event.text, threads'[p.agentThread.id].mailboxId)
             /\ Len(mailboxInfo.mailboxes) > 1)]_vars

(***************************************************************************)
(* C5. Mention-driven rebind: an invocation that recorded a new Message on *)
(* a Thread it found bound to mailbox A, with exactly A and B configured   *)
(* and B's name in the text in any letter case, sets the Thread's mailbox  *)
(* to B and posts one "Switched to the B mailbox" notice and after it the  *)
(* thinking placeholder (no call to Slack or to the job queue failing).    *)
(***************************************************************************)
RebindCase(a, b) ==
  /\ ret.pc \in {"returned", "threw"}
  /\ ret.message
  /\ Len(mailboxInfo.mailboxes) = 2
  /\ a # b
  /\ mailboxInfo.mailboxes[a].id = ret.agentThread.mailboxId
  /\ mailboxInfo.mailboxes[b].id # ret.agentThread.mailboxId
  /\ Includes(ToLowerCase(ret.event.text), ToLowerCase(mailboxInfo.mailboxes[b].name))

RebindOutcome(b) ==
  /\ ret.pc = "returned"
  /\ ret.wrote = mailboxInfo.mailboxes[b].id
  /\ KindsOf(ret.cid) = <<"switched", "thinking">>
  /\ PostsOf(ret.cid)[1].text = mailboxInfo.mailboxes[b].name
  /\ PostsOf(ret.cid)[1].thread_ts = ThreadRoot(ret.event)

C5_MentionRebinds ==
  \A a, b \in 1..Len(mailboxInfo.mailboxes) :
    (RebindCase(a, b) /\ failures = 0) => RebindOutcome(b)

C5_Witness ==
  /\ RebindCase(1, 2)
  /\ RebindOutcome(2)
  /\ ret.event.text = <<"h", "R">>
  /\ threads[ret.agentThread.id].mailboxId = mailboxInfo.mailboxes[2].id

(***************************************************************************)
(* C6. Unresolvable mailbox, as claimed: an invocation that recorded a new *)
(* Message, found the Thread's mailbox id in no configured mailbox and was *)
(* given no currently-selected mailbox posts the "which mailbox" prompt    *)
(* with the names joined by "/", no thinking placeholder, enqueues no job  *)
(* and writes no binding.                                                  *)
(***************************************************************************)
Unresolvable ==
  /\ ret.pc \in {"returned", "threw"}
  /\ ret.message
  /\ \A i \in 1..Len(mailboxInfo.mailboxes) :
       mailboxInfo.mailboxes[i].id # ret.agentThread.mailboxId
  /\ mailboxInfo.currentMailbox = NoMailbox

\* the names in the list's order, a "/" before each but the first
SlashJoined(mailboxes) ==
  LET F[i \in 0..Len(mailboxes)] ==
        IF i = 0 THEN <<>>
        ELSE IF i = 1 THEN mailboxes[1].name
        ELSE F[i - 1] \o <<"/">> \o mailboxes[i].name
  IN F[Len(mailboxes)]

PromptPosted ==
  /\ ret.pc = "returned"
  /\ KindsOf(ret.cid) = <<"which">>
  /\ PostsOf(ret.cid)[1].text = SlashJoined(mailboxInfo.mailboxes)
  /\ PostsOf(ret.cid)[1].token = mailboxInfo.mailboxes[1].slackBotToken
  /\ PostsOf(ret.cid)[1].thread_ts = ThreadRoot(ret.event)

NothingRouted ==
  /\ Len(JobsOf(ret.cid)) = 0
  /\ ret.wrote = NoId
  /\ \A i \in 1..Len(posts) : posts[i].cid = ret.cid => posts[i].kind = "which"

C6_AsksWhichMailbox ==
  (Unresolvable /\ failures = 0) => (PromptPosted /\ NothingRouted)

(***************************************************************************)
(* C6, amended: such an invocation never posts a placeholder, enqueues a   *)
(* job or writes a binding; it posts the prompt, with the first configured *)
(* mailbox's token, when that mailbox exists and has a bot token and the   *)
(* post succeeds, and otherwise raises an error and posts nothing.         *)
(***************************************************************************)
C6_AsksOrThrows ==
  Unresolvable =>
    /\ NothingRouted
    /\ IF Len(mailboxInfo.mailboxes) > 0 /\ mailboxInfo.mailboxes[1].slackBotToken # NoToken
       THEN (failures = 0 \/ ret.pc = "returned") => PromptPosted
       ELSE ret.pc = "threw" /\ PostsOf(ret.cid) = <<>>
    /\ ret.pc = "threw" => PostsOf(ret.cid) = <<>>

C6_Witness ==
  /\ Unresolvable
  /\ PromptPosted
  /\ Len(mailboxInfo.mailboxes) = 2

(***************************************************************************)
(* C10. Placeholder credential: when an invocation returns after its job is*)
(* enqueued, its thinking placeholder was posted with the token of the     *)
(* mailbox its Thread is then bound to.                                    *)
(***************************************************************************)
C10_PlaceholderCredential ==
  [][\A p \in procs :
       (Steps(p) /\ p.pc = "trigger" /\ ret'.pc = "returned" /\ ret'.cid = p.cid)
         => posts[p.statusMessageTs].token =
              FindMailbox(mailboxInfo.mailboxes, threads[p.agentThread.id].mailboxId).slackBotToken]_vars

(***************************************************************************)
(* C8. Aside opt-out: for an event whose text contains "(aside)" in any    *)
(* letter case, isAgentThread returns false whatever the replies hold.     *)
(***************************************************************************)
C8_AsideOptsOut ==
  (agent.pc = "returned" /\ Includes(ToLowerCase(agent.event.text), AsideMarker))
    => agent.result = FALSE

C8_Witness ==
  /\ agent.pc = "returned"
  /\ Includes(ToLowerCase(agent.event.text), AsideMarker)
  /\ ~Includes(agent.event.text, AsideMarker)
  /\ agent.event.thread_ts # NoTs /\ agent.event.thread_ts # agent.event.ts
  /\ agent.mailboxes = <<MailboxA>>
  /\ \E i \in 1..Len(agent.replies) :
       agent.replies[i].user = OtherUser /\ agent.replies[i].text = MentionOf(BotUser)
  /\ agent.result = FALSE

(***************************************************************************)
(* C11. Switched notice only on a change: a step that posts the "Switched  *)
(* to the X mailbox" notice belongs to an invocation that found its Thread *)
(* already bound to a mailbox, whose text names another mailbox, with more *)
(* than one mailbox configured; a first-time binding posts no notice.      *)
(***************************************************************************)
C11_SwitchedOnlyOnChange ==
  [][\A p \in procs :
       (Steps(p) /\ p.pc = "switch" /\ posts' # posts)
         => (/\ p.agentThread.mailboxId # NoId
             /\ p.mentionedMailbox # NoMailbox
             /\ p.mentionedMailbox.id # p.agentThread.mailboxId
             /\ Len(mailboxInfo.mailboxes) > 1)]_vars

(***************************************************************************)
(* C12. Placeholder failure aborts the enqueue: a placeholder post that    *)
(* fails ends the invocation with an error and enqueues nothing; an        *)
(* invocation that ended with an error has no job; and every job carries   *)
(* the timestamp of a thinking placeholder that its own invocation posted  *)
(* before.                                                                 *)
(***************************************************************************)
JobAfterPlaceholder ==
  \A i \in 1..Len(jobs) :
    /\ jobs[i].statusMessageTs \in 1..Len(posts)
    /\ posts[jobs[i].statusMessageTs].kind = "thinking"
    /\ posts[jobs[i].statusMessageTs].cid = jobs[i].cid

C12_PlaceholderFailureAborts ==
  /\ [](JobAfterPlaceholder /\ (ret.pc = "threw" => JobsOf(ret.cid) = <<>>))
  /\ [][\A p \in procs :
          (Steps(p) /\ p.pc = "think" /\ posts' = posts)
            => (/\ p \notin procs' /\ Cardinality(procs') < Cardinality(procs)
                /\ ret'.pc = "threw" /\ ret'.cid = p.cid
                /\ jobs' = jobs)]_vars

\* an invocation whose placeholder post failed, after another one's job
C12_Witness ==
  /\ ret.pc = "threw"
  /\ ret.message
  /\ ret.mailbox # NoMailbox
  /\ ret.mentionedMailbox = NoMailbox
  /\ PostsOf(ret.cid) = <<>>
  /\ JobsOf(ret.cid) = <<>>
  /\ Len(jobs) = 1
  /\ JobAfterPlaceholder

(***************************************************************************)
(* C13. Missing credential is fatal: an invocation that recorded a new     *)
(* Message and needs the token of a mailbox that has none ends with an     *)
(* error and enqueues no job. If it is the first mailbox (for the "which   *)
(* mailbox" prompt) or the mentioned mailbox (for the switched notice), it *)
(* has posted nothing; if it is the resolved mailbox (for the placeholder),*)
(* it has posted no placeholder. No post is ever made with an absent token *)
(* or, for the prompt and the notice, with the token of another mailbox    *)
(* than the one the post is for.                                           *)
(***************************************************************************)
Ended == ret.pc \in {"returned", "threw"} /\ ret.message

NeedsFirst == Ended /\ ret.mailbox = NoMailbox
NeedsMentioned ==
  Ended /\ ret.mailbox # NoMailbox /\ ret.mentionedMailbox # NoMailbox
        /\ Len(mailboxInfo.mailboxes) > 1
NeedsResolved == Ended /\ ret.mailbox # NoMailbox

OwnCredential(post) ==
  /\ post.token # NoToken
  /\ post.kind = "which" => post.token = mailboxInfo.mailboxes[1].slackBotToken
  /\ post.kind = "switched" =>
       \E i \in 1..Len(mailboxInfo.mailboxes) :
         /\ mailboxInfo.mailboxes[i].name = post.text
         /\ mailboxInfo.mailboxes[i].slackBotToken = post.token

C13_MissingCredentialFatal ==
  /\ (NeedsFirst /\ FirstMailbox(mailboxInfo.mailboxes).slackBotToken = NoToken)
       => (ret.pc = "threw" /\ PostsOf(ret.cid) = <<>> /\ JobsOf(ret.cid) = <<>>)
  /\ (NeedsMentioned /\ ret.mentionedMailbox.slackBotToken = NoToken)
       => (ret.pc = "threw" /\ PostsOf(ret.cid) = <<>> /\ JobsOf(ret.cid) = <<>>)
  /\ (NeedsResolved /\ ret.mailbox.slackBotToken = NoToken)
       => (/\ ret.pc = "threw"
           /\ JobsOf(ret.cid) = <<>>
           /\ \A i \in 1..Len(PostsOf(ret.cid)) : PostsOf(ret.cid)[i].kind = "switched")
  /\ \A i \in 1..Len(posts) : OwnCredential(posts[i])

\* the resolved mailbox has no token and the mentioned one has: the notice is
\* posted with the mentioned mailbox's token, then the error is raised
C13_Witness ==
  /\ NeedsResolved
  /\ ret.mailbox.slackBotToken = NoToken
  /\ ret.pc = "threw"
  /\ failures = 0
  /\ KindsOf(ret.cid) = <<"switched">>
  /\ PostsOf(ret.cid)[1].token = MailboxB.slackBotToken

(***************************************************************************)
(* C14. Job payload and ordering: every job carries the id of a Thread row *)
(* of its event's (channel, thread root), the event's user (or none) and   *)
(* the timestamp of the thinking placeholder its own invocation posted in  *)
(* that thread; an invocation enqueues at most one job, and exactly one if *)
(* it returns after its placeholder. Within an invocation the binding is   *)
(* written before any post, the switched notice before the placeholder,    *)
(* and the placeholder before the job.                                     *)
(***************************************************************************)
JobPayload(job) ==
  /\ job.agentThreadId \in 1..Len(threads)
  /\ threads[job.agentThreadId].slackChannel = job.event[1]
  /\ threads[job.agentThreadId].threadTs = job.event[2]
  /\ job.slackUserId = UserOf(job.event[3])
  /\ job.statusMessageTs \in 1..Len(posts)
  /\ posts[job.statusMessageTs].kind = "thinking"
  /\ posts[job.statusMessageTs].cid = job.cid
  /\ posts[job.statusMessageTs].channel = job.event[1]
  /\ posts[job.statusMessageTs].thread_ts = job.event[2]

OneJobEach ==
  /\ \A cid \in 1..calls : Len(JobsOf(cid)) <= 1
  /\ (ret.pc = "returned" /\ ret.statusMessageTs # NoTs) => Len(JobsOf(ret.cid)) = 1

EffectsInOrder(p) ==
  /\ JobsOf(p.cid) = <<>>
  /\ p.pc = "update" => PostsOf(p.cid) = <<>>
  /\ p.pc = "switch" => (PostsOf(p.cid) = <<>> /\ p.wrote = p.mentionedMailbox.id)
  /\ p.pc = "think" =>
       /\ KindsOf(p.cid) \in {<<>>, <<"switched">>}
       /\ (p.agentThread.mailboxId = NoId \/ p.mentionedMailbox # NoMailbox)
            => p.wrote = MailboxToUse(p).id
  /\ p.pc = "trigger" =>
       /\ KindsOf(p.cid) \in {<<"thinking">>, <<"switched", "thinking">>}
       /\ jobs' # jobs =>
            /\ Len(jobs') = Len(jobs) + 1
            /\ jobs'[Len(jobs')].agentThreadId = p.agentThread.id
            /\ jobs'[Len(jobs')].slackUserId = p.event.user
            /\ jobs'[Len(jobs')].statusMessageTs = p.statusMessageTs
            /\ posts[p.statusMessageTs].cid = p.cid
            /\ ret'.pc = "returned" /\ ret'.cid = p.cid

C14_JobPayloadAndOrder ==
  /\ []((\A i \in 1..Len(jobs) : JobPayload(jobs[i])) /\ OneJobEach)
  /\ [][\A p \in procs : Steps(p) => EffectsInOrder(p)]_vars

\* bind, notice, placeholder and job of one invocation, for an event without a
\* user, after the job of an event with one
C14_Witness ==
  /\ ret.pc = "returned"
  /\ ret.wrote # NoId
  /\ KindsOf(ret.cid) = <<"switched", "thinking">>
  /\ Len(JobsOf(ret.cid)) = 1
  /\ JobsOf(ret.cid)[1].slackUserId = NoUser
  /\ JobsOf(ret.cid)[1].statusMessageTs = ret.statusMessageTs
  /\ \E i \in 1..Len(jobs) : jobs[i].slackUserId = "U1"

(***************************************************************************)
(* C15. Text-less events stop early: an invocation for an event that is    *)
(* not a bot's and has no text finds or creates the Thread row and then    *)
(* returns: none of its steps inserts a Message row, changes a Thread's    *)
(* binding, posts to Slack, enqueues a job or raises an error.             *)
(***************************************************************************)
BindingsKept ==
  /\ Len(threads') >= Len(threads)
  /\ \A i \in 1..Len(threads) : threads'[i] = threads[i]
  /\ \A i \in (Len(threads) + 1)..Len(threads') : threads'[i].mailboxId = NoId

C15_TextlessStopsEarly ==
  [][\A p \in procs :
       (Steps(p) /\ p.event.text = NoText)
         => (/\ UNCHANGED <<messages, posts, jobs>>
             /\ BindingsKept
             /\ p.pc \in {"find", "insertThread"}
             /\ \A q \in procs' \ procs : q.cid = p.cid /\ q.pc = "insertThread"
             /\ (\A q \in procs' : q.cid # p.cid)
                  => (/\ ret'.pc = "returned" /\ ret'.cid = p.cid
                      /\ ret'.agentThread.id \in 1..Len(threads')
                      /\ threads'[ret'.agentThread.id].slackChannel = p.event.channel
                      /\ threads'[ret'.agentThread.id].threadTs = ThreadRoot(p.event)))]_vars

\* a text-less reply returned with the Thread row it found, the thread having a
\* Message row and a binding already
C15_Witness ==
  /\ ret.pc = "returned"
  /\ ret.event.ts # NoTs
  /\ ret.event.text = NoText
  /\ ret.event.thread_ts # NoTs
  /\ ret.agentThread.id \in 1..Len(threads)
  /\ ret.agentThread.mailboxId # NoId
  /\ ~ret.message
  /\ PostsOf(ret.cid) = <<>>
  /\ JobsOf(ret.cid) = <<>>
  /\ \E m \in messages : m.agentThreadId = ret.agentThread.id

(***************************************************************************)
(* C16. Per-thread state machine: no step deletes or reorders a Thread row *)
(* or changes its channel or root; a binding, once set, is never cleared;  *)
(* and every mailbox id written to a Thread is the id of a mailbox of the  *)
(* supplied list or of the currently-selected mailbox.                     *)
(***************************************************************************)
KnownMailboxIds ==
  ({mailboxInfo.mailboxes[i].id : i \in 1..Len(mailboxInfo.mailboxes)}
     \cup {mailboxInfo.currentMailbox.id}) \ {NoId}

C16_ThreadStateMachine ==
  [][/\ Len(threads') >= Len(threads)
     /\ \A i \in 1..Len(threads) :
          /\ threads'[i].slackChannel = threads[i].slackChannel
          /\ threads'[i].threadTs = threads[i].threadTs
          /\ threads[i].mailboxId # NoId => threads'[i].mailboxId # NoId
          /\ threads'[i].mailboxId # threads[i].mailboxId
               => threads'[i].mailboxId \in KnownMailboxIds
     /\ \A p \in procs :
          (Steps(p) /\ p.pc = "update")
            => threads'[p.agentThread.id].mailboxId \in KnownMailboxIds]_vars

\* a Thread bound to the second mailbox by an invocation that found it bound to
\* the first
C16_Witness ==
  /\ ret.pc \in {"returned", "threw"}
  /\ ret.agentThread.mailboxId = MailboxA.id
  /\ ret.wrote = MailboxB.id
  /\ threads[ret.agentThread.id].mailboxId = MailboxB.id

(***************************************************************************)
(* C17. isAgentThread decision: the result is true exactly when the event  *)
(* is a reply (thread_ts set and not its own ts) without the aside marker, *)
(* the first mailbox has a bot token and a bot user id, and either some    *)
(* fetched message of an author other than the bot contains the bot's      *)
(* mention token, or the first fetched message is the bot's and the second *)
(* one (if any) contains no "<@...>" token.                                *)
(***************************************************************************)
\* tok occurs in text, character by character
OccursIn(tok, text) ==
  \E k \in 1..Len(text) :
    /\ k + Len(tok) - 1 <= Len(text)
    /\ \A n \in 1..Len(tok) : text[k + n - 1] = tok[n]

\* "<@", then one or more characters none of which is ">", then ">"
MentionStyleToken(text) ==
  \E i, j \in 1..Len(text) :
    /\ i + 3 <= j
    /\ text[i] = "<" /\ text[i + 1] = "@" /\ text[j] = ">"
    /\ \A k \in (i + 2)..(j - 1) : text[k] # ">"

AgentEligible ==
  /\ Len(agent.mailboxes) >= 1
  /\ agent.mailboxes[1].slackBotToken # NoToken
  /\ agent.mailboxes[1].slackBotUserId # NoBotUser
  /\ agent.event.thread_ts # NoTs
  /\ agent.event.thread_ts # agent.event.ts
  /\ ~OccursIn(AsideMarker, ToLowerCase(agent.event.text))

OtherAuthorMentionsBot ==
  \E i \in 1..Len(agent.replies) :
    /\ agent.replies[i].user # agent.mailboxes[1].slackBotUserId
    /\ OccursIn(<<"<", "@">> \o agent.mailboxes[1].slackBotUserId \o <<">">>,
                agent.replies[i].text)

BotStartedNoRedirect ==
  /\ Len(agent.replies) >= 1
  /\ agent.replies[1].user = agent.mailboxes[1].slackBotUserId
  /\ Len(agent.replies) >= 2 => ~MentionStyleToken(agent.replies[2].text)

C17_AgentThreadDecision ==
  agent.pc = "returned" =>
    (agent.result = TRUE <=>
       (AgentEligible /\ (OtherAuthorMentionsBot \/ BotStartedNoRedirect)))

\* the fallback: a thread the bot started, whose second message has "<@>", which
\* is no mention token, and where only the bot itself wrote its mention
C17_Witness ==
  /\ agent.pc = "returned"
  /\ AgentEligible
  /\ ~OtherAuthorMentionsBot
  /\ Len(agent.replies) = 2
  /\ agent.replies[1].user = BotUser
  /\ agent.replies[1].text = MentionOf(BotUser)
  /\ agent.replies[2].text = <<"<", "@", ">">>
  /\ agent.result = TRUE

(***************************************************************************)
(* C18. At most one job per recorded message: every job was enqueued by an *)
(* invocation whose insert created the Message row of its event in the     *)
(* job's Thread, no two jobs stem from the same row, and so a Thread never *)
(* has more jobs than Message rows.                                        *)
(***************************************************************************)
MessagesOfThread(id) == {m \in messages : m.agentThreadId = id}
JobsOfThread(id) == {i \in 1..Len(jobs) : jobs[i].agentThreadId = id}

\* the Message row a job stems from
RowOf(job) == {m \in messages : m.agentThreadId = job.agentThreadId /\ m.messageTs = job.event[3]}

C18_JobsWithinMessages ==
  /\ [](/\ \A i \in 1..Len(jobs) : Cardinality(RowOf(jobs[i])) = 1
        /\ \A i, j \in 1..Len(jobs) : RowOf(jobs[i]) = RowOf(jobs[j]) => i = j
        /\ \A id \in 1..Len(threads) :
             Cardinality(JobsOfThread(id)) <= Cardinality(MessagesOfThread(id)))
  /\ [][\A p \in procs : (Steps(p) /\ jobs' # jobs) => p.message]_vars

\* a re-delivery that stopped at the duplicate check, the Thread having as many
\* jobs as Message rows
C18_Witness ==
  /\ ret.pc = "returned"
  /\ ret.event.text # NoText
  /\ ~ret.message
  /\ JobsOf(ret.cid) = <<>>
  /\ Cardinality(MessagesOfThread(ret.agentThread.id)) = 2
  /\ Cardinality(JobsOfThread(ret.agentThread.id)) = 2

(***************************************************************************)
(* C19. No recovery by re-delivery: Message rows are never removed, and    *)
(* once an invocation has ended with an error after its insert created the *)
(* Message row, no invocation that begins later for the same (channel,     *)
(* thread root, ts) enqueues a job.                                        *)
(***************************************************************************)
C19_NoRecoveryByRedelivery ==
  [][/\ messages \subseteq messages'
     /\ \A p \in procs : (p.afterFailure /\ Steps(p)) => jobs' = jobs]_vars

====
